---- MODULE Spec2Model ----
(***************************************************************************)
(* A model of glymur's Jp2k class (src/glymur/jp2k.py): the constructor    *)
(* and _parse, write, read, read_bands, _read_common and get_codestream.   *)
(* The OpenJPEG engine is an external collaborator: each engine call       *)
(* either succeeds or raises, chosen nondeterministically, and the handles *)
(* it hands out are tracked in the event log of the call.                  *)
(***************************************************************************)
EXTENDS Integers, Sequences, FiniteSets, TLC

VARIABLES
    filename,   \* self.filename, represented by its last four characters
    disk,       \* the file stored under filename: None or Some(file)
    self,       \* the Jp2k object: None or Some([mode, box, codec_format])
    last        \* the outcome of the last call

vars == <<filename, disk, self, last>>

(***************************************************************************)
(* Optional values (Python's None).                                        *)
(***************************************************************************)
None == <<>>
Some(x) == <<x>>
IsNone(o) == o = <<>>
Val(o) == o[1]

(***************************************************************************)
(* Bounds of the model.                                                    *)
(***************************************************************************)
MaxExp == 7         \* sizes tried for code blocks and precincts reach 2^MaxExp + 1
MaxComps == 2       \* components of the images stored in the files read
MaxCoord == 1       \* decode-area coordinates range over -1 .. MaxCoord
MaxByte == 2        \* replacement bytes tried at each of the 12 signature positions
MaxDim == 2         \* rows and columns of the arrays written and read back

RECURSIVE Pow2(_)
Pow2(k) == IF k = 0 THEN 1 ELSE 2 * Pow2(k - 1)

(***************************************************************************)
(* struct.unpack of big-endian fields (jp2k.py:113, 128).                  *)
(***************************************************************************)
Unpack_H(b) == b[1] * 256 + b[2]

\* an unsigned 32-bit value, kept as its two 16-bit halves <<high, low>>:
\* the values of TLC's integers stop at 2^31 - 1
Unpack_I(b) == <<b[1] * 256 + b[2], b[3] * 256 + b[4]>>
U32(n) == <<n \div 65536, n % 65536>>

CODEC_J2K == "J2K"
CODEC_JP2 == "JP2"
Unset == "unset"    \* an attribute that was never assigned

\* b'jP  '
JP_TYPE == <<106, 80, 32, 32>>

(***************************************************************************)
(* Jp2kBox._parse_superbox lives in jp2box.py: it returns the list of      *)
(* top-level boxes of the file, or raises on a malformed box.              *)
(***************************************************************************)
ParseSuperbox(file) ==
    IF file.tree_ok THEN [err |-> "ok", box |-> file.tree]
    ELSE [err |-> "IOError: malformed box", box |-> <<>>]

\* jp2k.py:132, the signature test of the first 12 bytes
SignatureUnchecked(L, T, signature) == L # U32(12) \/ T # JP_TYPE
SignatureBad(L, T, signature) ==
    L # U32(12) \/ T # JP_TYPE \/ signature # <<13, 10, 135, 10>>

(***************************************************************************)
(* Jp2k._parse (jp2k.py:96-139) applied to object o (a record) and the     *)
(* file on disk.  Returns the error and the object as _parse leaves it.    *)
(***************************************************************************)
Parse(o, d) ==
    IF IsNone(d) THEN [err |-> "OSError: stat", obj |-> o]
    ELSE LET file == Val(d)
             hdr == file.hdr
         IN IF Len(hdr) < 2 THEN [err |-> "struct.error", obj |-> o]
            ELSE IF Unpack_H(SubSeq(hdr, 1, 2)) = 65359   \* 0xff4f
            THEN [err |-> "ok", obj |-> [o EXCEPT !.codec_format = CODEC_J2K]]
            ELSE LET o2 == [o EXCEPT !.codec_format = CODEC_JP2]
                 IN IF Len(hdr) < 12 THEN [err |-> "struct.error", obj |-> o2]
                    ELSE LET L == Unpack_I(SubSeq(hdr, 1, 4))
                             T == SubSeq(hdr, 5, 8)
                             signature == SubSeq(hdr, 9, 12)
                         IN IF SignatureBad(L, T, signature)
                            THEN [err |-> "IOError: not a JPEG 2000 file", obj |-> o2]
                            ELSE LET sb == ParseSuperbox(file)
                                 IN IF sb.err # "ok" THEN [err |-> sb.err, obj |-> o2]
                                    ELSE [err |-> "ok",
                                          obj |-> [o2 EXCEPT !.box = sb.box]]

\* Jp2k.__init__ (jp2k.py:68-84)
NewObject(mode) == [mode |-> mode, box |-> <<>>, codec_format |-> Unset]

JInit(mode, d) ==
    IF mode = "rb" THEN Parse(NewObject(mode), d)
    ELSE [err |-> "ok", obj |-> NewObject(mode)]


(***************************************************************************)
(* Engine handles and the event log of one call.                           *)
(***************************************************************************)
\* acquisition and release of handle h; the copy of component k out of the image
Acquire(h) == [act |-> "acquire", h |-> h, k |-> 0]
Release(h) == [act |-> "release", h |-> h, k |-> 0]
Copy(k) == [act |-> "copy", h |-> "image", k |-> k]

Handles == {"stream", "codec", "image"}

\* the handles acquired in log ev and not released later in it
Unreleased(ev) ==
    {h \in Handles :
        \E i \in 1..Len(ev) :
            /\ ev[i] = Acquire(h)
            /\ \A j \in (i + 1)..Len(ev) : ev[j] # Release(h)}

\* the releases of log ev that no earlier acquisition matches
Spurious(ev) ==
    {i \in 1..Len(ev) :
        /\ ev[i].act = "release"
        /\ \A j \in 1..(i - 1) : ev[j] # Acquire(ev[i].h)}

(***************************************************************************)
(* str.lower() on the strings the model uses (jp2k.py:217, 330).           *)
(***************************************************************************)
Lower(s) ==
    CASE s = ".JP2" -> ".jp2"
      [] s = "RGB" -> "rgb"
      [] s = "Gray" -> "gray"
      [] OTHER -> s

(***************************************************************************)
(* math.log(n, 2) != math.floor(math.log(n, 2)) for an integer n >= 1      *)
(* (jp2k.py:236, 283).  On IEEE doubles the quotient log(n)/log(2) is an   *)
(* exact integer for n = 2^k and is not one for every other n in the range *)
(* the model tries, so the test is modelled on the integer logarithm.      *)
(***************************************************************************)
RECURSIVE FloorLog2(_)
FloorLog2(n) == IF n < 2 THEN 0 ELSE 1 + FloorLog2(n \div 2)

LogNotIntegral(n) == Pow2(FloorLog2(n)) # n

\* jp2k.py:232, the area and minimum-side test of the code block
CbsizeAreaBad(h, w) == h * w > 4096 \/ h < 4
CbsizeTooBig(h, w) == h * w > 4096 \/ h < 4 \/ w < 4

\* jp2k.py:229-240: the error raised for cbsize, "ok" when it is accepted
CbsizeError(cbsize) ==
    IF IsNone(cbsize) THEN "ok"
    ELSE LET w == Val(cbsize)[2]
             h == Val(cbsize)[1]
         IN IF CbsizeTooBig(h, w) THEN "RuntimeError: code block area"
            ELSE IF LogNotIntegral(h) \/ LogNotIntegral(w)
                 THEN "IOError: code block size not a power of 2"
                 ELSE "ok"

\* jp2k.py:277-287: the checks of precinct j (1-based here) of psizes
PrecinctError(j, p, cbsize) ==
    LET prch == p[1]
        prcw == p[2]
    IN IF j = 1 /\ ~IsNone(cbsize)
          /\ (Val(cbsize)[1] * 2 > prch \/ Val(cbsize)[2] * 2 > prcw)
       THEN "IOError: precinct smaller than twice the code block"
       ELSE IF prch <= 0 THEN "ValueError: math domain error"
       ELSE IF LogNotIntegral(prch) THEN "IOError: precinct size not a power of 2"
       ELSE IF prcw <= 0 THEN "ValueError: math domain error"
       ELSE IF LogNotIntegral(prcw) THEN "IOError: precinct size not a power of 2"
       ELSE "ok"

\* jp2k.py:275-287: the loop stops at the first precinct that raises
PsizesError(psizes, cbsize) ==
    IF IsNone(psizes) THEN "ok"
    ELSE LET ps == Val(psizes)
             bad == {j \in 1..Len(ps) : PrecinctError(j, ps[j], cbsize) # "ok"}
         IN IF bad = {} THEN "ok"
            ELSE LET j == CHOOSE x \in bad : \A y \in bad : x <= y
                 IN PrecinctError(j, ps[j], cbsize)

\* jp2k.py:306-308
QualityError(a) ==
    IF ~IsNone(a.cratios) /\ ~IsNone(a.psnr)
    THEN "RuntimeError: cratios and psnr together" ELSE "ok"

\* jp2k.py:310-317
NdimError(data) ==
    IF Len(data.shape) = 2 \/ Len(data.shape) = 3 THEN "ok"
    ELSE "IOError: imagery dimension not allowed"

\* data.shape after the reshape of jp2k.py:310-312 (the samples stay in place)
Shape3(data) ==
    IF Len(data.shape) = 2 THEN data.shape \o <<1>> ELSE data.shape

\* jp2k.py:217-220
CodecFmt(fname) == IF Lower(fname) = ".jp2" THEN CODEC_JP2 ELSE CODEC_J2K

\* the same decision without the test of the codec format
ColorspaceAnyFormat(a, codec_fmt) ==
    LET nc == Shape3(a.data)[3]
    IN IF IsNone(a.colorspace)
       THEN [err |-> "ok",
             colorspace |-> IF nc = 1 \/ nc = 2 THEN "CLRSPC_GRAY" ELSE "CLRSPC_SRGB"]
       ELSE LET c == Lower(Val(a.colorspace))
            IN IF c \notin {"rgb", "grey", "gray"}
               THEN [err |-> "IOError: invalid colorspace", colorspace |-> ""]
               ELSE IF c = "rgb" /\ nc < 3
               THEN [err |-> "IOError: RGB requires 3 components", colorspace |-> ""]
               ELSE [err |-> "ok",
                     colorspace |-> IF c = "rgb" THEN "CLRSPC_SRGB" ELSE "CLRSPC_GRAY"]

\* jp2k.py:321-338: [err, colorspace]
Colorspace(a, codec_fmt) ==
    LET nc == Shape3(a.data)[3]
    IN IF IsNone(a.colorspace)
       THEN [err |-> "ok",
             colorspace |-> IF nc = 1 \/ nc = 2 THEN "CLRSPC_GRAY" ELSE "CLRSPC_SRGB"]
       ELSE IF codec_fmt = CODEC_J2K
            THEN [err |-> "IOError: colorspace with J2K", colorspace |-> ""]
       ELSE LET c == Lower(Val(a.colorspace))
            IN IF c \notin {"rgb", "grey", "gray"}
               THEN [err |-> "IOError: invalid colorspace", colorspace |-> ""]
               ELSE IF c = "rgb" /\ nc < 3
               THEN [err |-> "IOError: RGB requires 3 components", colorspace |-> ""]
               ELSE [err |-> "ok",
                     colorspace |-> IF c = "rgb" THEN "CLRSPC_SRGB" ELSE "CLRSPC_GRAY"]

\* jp2k.py:340-345: [err, comp_prec]
CompPrec(data) ==
    IF data.dtype = "uint8" THEN [err |-> "ok", comp_prec |-> 8]
    ELSE IF data.dtype = "uint16" THEN [err |-> "ok", comp_prec |-> 16]
    ELSE [err |-> "RuntimeError: unhandled datatype", comp_prec |-> 0]

\* the errors write raises for its own parameters
ParamErrors ==
    {"RuntimeError: code block area",
     "IOError: code block size not a power of 2",
     "IOError: precinct smaller than twice the code block",
     "ValueError: math domain error",
     "IOError: precinct size not a power of 2",
     "RuntimeError: cratios and psnr together",
     "IOError: imagery dimension not allowed",
     "IOError: colorspace with J2K",
     "IOError: invalid colorspace",
     "IOError: RGB requires 3 components",
     "RuntimeError: unhandled datatype"}

(***************************************************************************)
(* jp2k.py:229-345 in source order: the first error write raises for its   *)
(* parameters, "ok" when all are accepted.                                 *)
(***************************************************************************)
ParamError(a, codec_fmt) ==
    LET cb == CbsizeError(a.cbsize)
        ps == PsizesError(a.psizes, a.cbsize)
        cs == Colorspace(a, codec_fmt).err
    IN IF cb # "ok" THEN cb
       ELSE IF ps # "ok" THEN ps
       ELSE IF QualityError(a) # "ok" THEN QualityError(a)
       ELSE IF NdimError(a.data) # "ok" THEN NdimError(a.data)
       ELSE IF cs # "ok" THEN cs
       ELSE CompPrec(a.data).err

(***************************************************************************)
(* The encoder configuration built by jp2k.py:210-304 and 376-380, from    *)
(* opj_set_default_encoder_parameters' defaults (code block 64 x 64,       *)
(* 6 resolutions, no subsampling).                                         *)
(***************************************************************************)
Cparams(a, codec_fmt) ==
    LET nlayers == IF ~IsNone(a.psnr) THEN Len(Val(a.psnr))
                   ELSE IF ~IsNone(a.cratios) THEN Len(Val(a.cratios))
                   ELSE 1
    IN [cod_format |-> codec_fmt,
        tcp_numlayers |-> nlayers,
        tcp_rates |-> IF IsNone(a.cratios) THEN <<0>> ELSE Val(a.cratios),
        tcp_distoratio |-> IF IsNone(a.psnr) THEN <<>> ELSE Val(a.psnr),
        cp_disto_alloc |-> 1,
        cp_fixed_quality |-> IF IsNone(a.psnr) THEN 0 ELSE 1,
        cblockw_init |-> IF IsNone(a.cbsize) THEN 64 ELSE Val(a.cbsize)[2],
        cblockh_init |-> IF IsNone(a.cbsize) THEN 64 ELSE Val(a.cbsize)[1],
        csty |-> (IF a.eph THEN 4 ELSE 0) + (IF a.sop THEN 2 ELSE 0)
                 + (IF IsNone(a.psizes) THEN 0 ELSE 1),
        prch_init |-> IF IsNone(a.psizes) THEN <<>>
                      ELSE [j \in 1..Len(Val(a.psizes)) |-> Val(a.psizes)[j][1]],
        prcw_init |-> IF IsNone(a.psizes) THEN <<>>
                      ELSE [j \in 1..Len(Val(a.psizes)) |-> Val(a.psizes)[j][2]],
        res_spec |-> IF IsNone(a.psizes) THEN 0 ELSE Len(Val(a.psizes)),
        numresolution |-> IF IsNone(a.numres) THEN 6 ELSE Val(a.numres),
        subsampling_dy |-> IF IsNone(a.subsam) THEN 1 ELSE Val(a.subsam)[1],
        subsampling_dx |-> IF IsNone(a.subsam) THEN 1 ELSE Val(a.subsam)[2],
        tcp_mct |-> IF Shape3(a.data)[3] = 3 THEN 1 ELSE 0]

(***************************************************************************)
(* Arrays.  An array is [shape, dtype, flat]: flat lists its samples in C   *)
(* order, the last index running fastest.                                  *)
(***************************************************************************)
RECURSIVE Size(_)
Size(shape) == IF shape = <<>> THEN 1 ELSE Head(shape) * Size(Tail(shape))

\* numpy.zeros(shape, dtype)
Zeros(shape, dtype) ==
    [shape |-> shape, dtype |-> dtype, flat |-> [i \in 1..Size(shape) |-> 0]]

\* a sample of an unsigned array as the 32-bit integer numpy converts it to:
\* the conversion widens, every value of the array's type is kept
AsInt32(v, dtype) ==
    IF dtype = "uint8" THEN v % 256
    ELSE IF dtype = "uint16" THEN v % 65536
    ELSE v

\* x.astype(dtype) for one 32-bit sample x (jp2k.py:596, 598): the low bits
AsType(x, dtype) ==
    IF dtype = "uint8" THEN x % 256
    ELSE IF dtype = "uint16" THEN x % 65536
    ELSE IF dtype = "int8" THEN ((x + 128) % 256) - 128
    ELSE ((x + 32768) % 65536) - 32768

\* the same plane taken as if data held its components one after the other
LayerPlanar(data, k) ==
    LET sh == Shape3(data)
    IN [i \in 1..(sh[1] * sh[2]) |->
          AsInt32(data.flat[(k - 1) * sh[1] * sh[2] + i], data.dtype)]

\* jp2k.py:370-371: np.ascontiguousarray(data[:, :, k], dtype=np.int32), the
\* samples of component k (from 1) in row order
Layer(data, k) ==
    LET sh == Shape3(data)
    IN [i \in 1..(sh[1] * sh[2]) |->
          AsInt32(data.flat[(i - 1) * sh[3] + k], data.dtype)]

(***************************************************************************)
(* Files.  A file is [hdr, tree, tree_ok, cs]: its first 12 bytes (fewer   *)
(* when it is shorter), the top-level boxes _parse_superbox finds in it,   *)
(* whether its box structure is well formed, and its codestream (None when *)
(* no codestream can be parsed from it): [segment, comps], the marker      *)
(* segments of the main header and the components the engine decodes.      *)
(***************************************************************************)
JP2Hdr == <<0, 0, 0, 12, 106, 80, 32, 32, 13, 10, 135, 10>>
J2KHdr == <<255, 79, 255, 81, 0, 47, 0, 0, 0, 0, 0, 2>>

SOC == [marker_id |-> "SOC"]
SIZ(xr, yr) == [marker_id |-> "SIZ", XRsiz |-> xr, YRsiz |-> yr]
COD(levels) == [marker_id |-> "COD", SPcod |-> <<0, 0, 1, 0, levels>>]
QCD == [marker_id |-> "QCD"]
CME == [marker_id |-> "CME"]

\* the file holding codestream cs in format fmt
FileOf(fmt, cs) ==
    [hdr |-> IF fmt = CODEC_JP2 THEN JP2Hdr ELSE J2KHdr,
     tree |-> IF fmt = CODEC_JP2 THEN <<"jP  ", "ftyp", "jp2h", "jp2c">> ELSE <<>>,
     tree_ok |-> TRUE,
     cs |-> Some(cs)]

(***************************************************************************)
(* The file the engine leaves after a successful write (jp2k.py:391-395):  *)
(* one component per plane of data, with the configured precision,         *)
(* subsampling and number of resolutions; the engine keeps the 32-bit      *)
(* samples staged by jp2k.py:369-374 as they are.                          *)
(***************************************************************************)
Encoded(a, codec_fmt) ==
    LET cp == Cparams(a, codec_fmt)
        sh == Shape3(a.data)
        nc == sh[3]
    IN FileOf(codec_fmt,
         [segment |-> <<SOC,
                        SIZ([k \in 1..nc |-> cp.subsampling_dx],
                            [k \in 1..nc |-> cp.subsampling_dy]),
                        COD(cp.numresolution - 1), QCD>>,
          comps |-> [k \in 1..nc |->
                       [prec |-> CompPrec(a.data).comp_prec, sgnd |-> FALSE,
                        h |-> sh[1], w |-> sh[2], data |-> Layer(a.data, k)]]])

(***************************************************************************)
(* What a write that fails after the output stream was opened (jp2k.py:392 *)
(* opens it for writing, which truncates the file) can leave on disk: the  *)
(* stream is never closed, so anything from nothing to the headers without *)
(* a complete codestream.                                                  *)
(***************************************************************************)
PartialFiles(codec_fmt) ==
    {[hdr |-> <<>>, tree |-> <<>>, tree_ok |-> FALSE, cs |-> None],
     [hdr |-> IF codec_fmt = CODEC_JP2 THEN JP2Hdr ELSE J2KHdr,
      tree |-> <<>>, tree_ok |-> codec_fmt = CODEC_J2K, cs |-> None]}

(***************************************************************************)
(* Engine calls.  A script is the sequence of engine calls a method makes; *)
(* each call names the handle it returns ("" for none).  The call named    *)
(* failAt raises; "none" lets them all succeed.                            *)
(***************************************************************************)
Call(n, acq) == [n |-> n, acq |-> acq]

\* index of the first call of script s that raises, Len(s) + 1 when none does
FailIndex(s, failAt) ==
    LET hit == {i \in 1..Len(s) : s[i].n = failAt}
    IN IF hit = {} THEN Len(s) + 1 ELSE CHOOSE i \in hit : \A j \in hit : i <= j

\* the handles acquired by the calls of s before index n, in order
RECURSIVE Acquired(_, _)
Acquired(s, n) ==
    IF n <= 1 \/ s = <<>> THEN <<>>
    ELSE IF Head(s).acq = "" THEN Acquired(Tail(s), n - 1)
    ELSE <<Head(s).acq>> \o Acquired(Tail(s), n - 1)

AcquireAll(hs) == [i \in 1..Len(hs) |-> Acquire(hs[i])]

\* jp2k.py:359-395, the engine calls of write up to the end of compression
EncodeScript ==
    <<Call("image_create", "image"), Call("create_compress", "codec"),
      Call("setup_encoder", ""), Call("stream_create", "stream"),
      Call("start_compress", ""), Call("encode", ""), Call("end_compress", "")>>

\* jp2k.py:396-398
EncodeCleanup == <<Release("stream"), Release("codec"), Release("image")>>

(***************************************************************************)
(* Jp2k.write up to its final _parse (jp2k.py:210-398).  The parameters    *)
(* are checked first; then the engine runs, and an engine call that raises *)
(* ends write at once: lines 396-398 are reached only when none does.      *)
(***************************************************************************)
\* the same rejection raised only after the engine handles were created
WriteRejectedLate(a, fname, failAt) ==
    [err |-> ParamError(a, CodecFmt(fname)),
     events |-> <<Acquire("image"), Acquire("codec"), Acquire("stream")>>,
     out |-> [cparams |-> None, colorspace |-> None]]

WriteRejected(a, fname, failAt) ==
    [err |-> ParamError(a, CodecFmt(fname)), events |-> <<>>,
     out |-> [cparams |-> None, colorspace |-> None]]

WriteEncode(a, fname, failAt) ==
    LET fmt == CodecFmt(fname)
        n == FailIndex(EncodeScript, failAt)
        acq == AcquireAll(Acquired(EncodeScript, n))
        failed == n <= Len(EncodeScript)
    IN [err |-> IF failed THEN "EngineError" ELSE "ok",
        events |-> IF failed THEN acq ELSE acq \o EncodeCleanup,
        out |-> [cparams |-> IF n >= 3 THEN Some(Cparams(a, fmt)) ELSE None,
                 colorspace |-> Some(Colorspace(a, fmt).colorspace)]]

WriteRun(a, fname, failAt) ==
    LET rejected == WriteRejected(a, fname, failAt)
    IN IF rejected.err # "ok" THEN rejected ELSE WriteEncode(a, fname, failAt)

\* whether the run opened the output stream, which creates the file
StreamOpened(events) == \E i \in 1..Len(events) : events[i] = Acquire("stream")

(***************************************************************************)
(* Codestream(fp) lives in codestream.py: it parses the marker segments at *)
(* the file position, or raises when there is no codestream to parse.      *)
(***************************************************************************)
Codestream(file) ==
    IF IsNone(file.cs) THEN [err |-> "IOError: codestream parse", segment |-> <<>>]
    ELSE [err |-> "ok", segment |-> Val(file.cs).segment]

\* Jp2k.get_codestream (jp2k.py:650-702)
GetCodestream(o, d) ==
    IF IsNone(d) THEN [err |-> "IOError: open", segment |-> <<>>]
    ELSE IF o.codec_format = Unset
    THEN [err |-> "AttributeError: _codec_format", segment |-> <<>>]
    ELSE IF o.codec_format = CODEC_J2K THEN Codestream(Val(d))
    ELSE LET box == SelectSeq(o.box, LAMBDA x : x = "jp2c")
         IN IF Len(box) # 1
            THEN [err |-> "RuntimeError: single codestream", segment |-> <<>>]
            ELSE Codestream(Val(d))

\* jp2k.py:448-450: np.any(dxs - dxs[0]) or np.any(dys - dys[0])
AnyDiffers(xs) == \E k \in 1..Len(xs) : xs[k] - xs[1] # 0
MixedOnlyX(dxs, dys) == AnyDiffers(dxs)
MixedSubsampling(dxs, dys) == AnyDiffers(dxs) \/ AnyDiffers(dys)

\* jp2k.py:509-517: the error raised for area, "ok" when it is accepted
AreaErrorLax(area) ==
    IF IsNone(area) THEN "ok"
    ELSE IF Val(area)[1] < 0 \/ Val(area)[2] < 0
         THEN "IOError: upper left corner must be nonnegative"
    ELSE IF Val(area)[3] < 0 \/ Val(area)[4] < 0
         THEN "IOError: lower right corner must be positive"
    ELSE "ok"

AreaError(area) ==
    IF IsNone(area) THEN "ok"
    ELSE IF Val(area)[1] < 0 \/ Val(area)[2] < 0
         THEN "IOError: upper left corner must be nonnegative"
    ELSE IF Val(area)[3] <= 0 \/ Val(area)[4] <= 0
         THEN "IOError: lower right corner must be positive"
    ELSE "ok"

\* jp2k.py:503-508: [err, reduce]
Reduce(o, d, a) ==
    IF a.reduce # -1 THEN [err |-> "ok", reduce |-> a.reduce]
    ELSE LET c == GetCodestream(o, d)
         IN IF c.err # "ok" THEN [err |-> c.err, reduce |-> 0]
            ELSE IF Len(c.segment) < 3 THEN [err |-> "IndexError: segment", reduce |-> 0]
            ELSE IF "SPcod" \notin DOMAIN c.segment[3]
                 THEN [err |-> "AttributeError: SPcod", reduce |-> 0]
            ELSE [err |-> "ok", reduce |-> c.segment[3].SPcod[5]]

\* jp2k.py:492-525, the decoder parameters
Dparam(o, a, reduce) ==
    [decod_format |-> o.codec_format,
     cp_layer |-> a.layer,
     cp_reduce |-> reduce,
     DA_y0 |-> IF IsNone(a.area) THEN 0 ELSE Val(a.area)[1],
     DA_x0 |-> IF IsNone(a.area) THEN 0 ELSE Val(a.area)[2],
     DA_y1 |-> IF IsNone(a.area) THEN 0 ELSE Val(a.area)[3],
     DA_x1 |-> IF IsNone(a.area) THEN 0 ELSE Val(a.area)[4],
     tile_index |-> IF IsNone(a.tile) THEN 0 ELSE Val(a.tile),
     nb_tile_to_decode |-> IF IsNone(a.tile) THEN 0 ELSE 1]

\* jp2k.py:528-552, the engine calls of _read_common
DecodeScript(dparam) ==
    <<Call("stream_create", "stream"), Call("create_decompress", "codec"),
      Call("setup_decoder", ""), Call("read_header", "image")>>
    \o (IF dparam.nb_tile_to_decode # 0 THEN <<Call("get_decoded_tile", "")>>
        ELSE <<Call("set_decode_area", ""), Call("decode", ""),
               Call("end_decompress", "")>>)

\* the engine call that raises: the one chosen, or the one the file forces
DecodeFailure(d, failAt) ==
    IF IsNone(d) THEN "stream_create"
    ELSE IF failAt \in {"stream_create", "create_decompress", "setup_decoder"}
    THEN failAt
    ELSE IF IsNone(Val(d).cs) THEN "read_header"
    ELSE failAt

(***************************************************************************)
(* contextlib.ExitStack: leaving the with block of jp2k.py:527, by return  *)
(* or by exception, runs the registered callbacks last in, first out.      *)
(***************************************************************************)
\* the callbacks run first in, first out
UnwindFifo(callbacks) == [i \in 1..Len(callbacks) |-> Release(callbacks[i])]
UnwindButLast(callbacks) ==
    [i \in 1..(Len(callbacks) - 1) |-> Release(callbacks[Len(callbacks) - i])]
Unwind(callbacks) ==
    [i \in 1..Len(callbacks) |-> Release(callbacks[Len(callbacks) + 1 - i])]

\* jp2k.py:554-568: [err, dtype]
Dtype(component) ==
    IF component.sgnd
    THEN IF component.prec <= 8 THEN [err |-> "ok", dtype |-> "int8"]
         ELSE IF component.prec <= 16 THEN [err |-> "ok", dtype |-> "int16"]
         ELSE [err |-> "RuntimeError: unhandled precision", dtype |-> ""]
    ELSE IF component.prec <= 8 THEN [err |-> "ok", dtype |-> "uint8"]
         ELSE IF component.prec <= 16 THEN [err |-> "ok", dtype |-> "uint16"]
         ELSE [err |-> "RuntimeError: unhandled precision", dtype |-> ""]

\* numpy's rule for data[:, :, k] = plane (jp2k.py:598)
Broadcasts(h, w, nrows, ncols) == (h = nrows \/ h = 1) /\ (w = ncols \/ w = 1)

\* jp2k.py:578-598: the error of component k of the loop, "ok" when it is copied
CopyError(comps, k, as_bands) ==
    IF comps[k].h = 0 \/ comps[k].w = 0 THEN "IOError: component has zero dimension"
    ELSE IF ~as_bands /\ ~Broadcasts(comps[k].h, comps[k].w, comps[1].h, comps[1].w)
         THEN "ValueError: could not broadcast"
    ELSE "ok"

(***************************************************************************)
(* jp2k.py:554-598: what _read_common does with the decoded image: the     *)
(* datatype of component 0, then one copy per component.  [err, events,    *)
(* data]; data is the list of bands or the array.                          *)
(***************************************************************************)
Band(component, dtype) ==
    [dtype |-> dtype, shape |-> <<component.h, component.w>>,
     flat |-> [i \in 1..(component.h * component.w) |->
                 AsType(component.data[i], dtype)]]

\* jp2k.py:573-576 and 598: numpy.zeros((nrows, ncols, ncomps), dtype) with
\* data[:, :, k] set to the band of component k, a band of one row or one
\* column being repeated along that axis
Stacked(comps, dtype) ==
    LET nrows == comps[1].h
        ncols == comps[1].w
        ncomps == Len(comps)
        At(k, r, c) ==
            Band(comps[k], dtype).flat[
                (IF comps[k].h = 1 THEN 0 ELSE r) * comps[k].w
                + (IF comps[k].w = 1 THEN 0 ELSE c) + 1]
    IN [dtype |-> dtype, shape |-> <<nrows, ncols, ncomps>>,
        flat |-> [i \in 1..(nrows * ncols * ncomps) |->
                    At(((i - 1) % ncomps) + 1,
                       ((i - 1) \div ncomps) \div ncols,
                       ((i - 1) \div ncomps) % ncols)]]

CopyOut(comps, as_bands) ==
    LET dt == Dtype(comps[1])
        bad == {k \in 1..Len(comps) : CopyError(comps, k, as_bands) # "ok"}
        stop == IF bad = {} THEN Len(comps) + 1
                ELSE CHOOSE k \in bad : \A j \in bad : k <= j
    IN IF dt.err # "ok" THEN [err |-> dt.err, events |-> <<>>, data |-> None]
       ELSE [err |-> IF bad = {} THEN "ok" ELSE CopyError(comps, stop, as_bands),
             events |-> [k \in 1..(stop - 1) |-> Copy(k)],
             data |-> IF bad # {} THEN None
                      ELSE IF as_bands
                      THEN Some([k \in 1..Len(comps) |-> Band(comps[k], dt.dtype)])
                      ELSE Some(Stacked(comps, dt.dtype))]

\* jp2k.py:527-600, the with block of _read_common
Decode(d, dparam, as_bands, failAt) ==
    LET script == DecodeScript(dparam)
        n == FailIndex(script, DecodeFailure(d, failAt))
        held == Acquired(script, n)
        acq == AcquireAll(held)
        c == CopyOut(Val(Val(d).cs).comps, as_bands)
    IN IF n <= Len(script)
       THEN [err |-> "EngineError", events |-> acq \o Unwind(held),
             out |-> [dparam |-> IF n >= 3 THEN Some(dparam) ELSE None, data |-> None]]
       ELSE [err |-> c.err, events |-> acq \o c.events \o Unwind(held),
             out |-> [dparam |-> Some(dparam), data |-> c.data]]

NoRead(err) == [err |-> err, events |-> <<>>, out |-> [dparam |-> None, data |-> None]]

\* Jp2k._read_common (jp2k.py:467-600)
ReadCommon(o, d, a, as_bands, failAt) ==
    IF o.codec_format = Unset THEN NoRead("AttributeError: _codec_format")
    ELSE LET r == Reduce(o, d, a)
         IN IF r.err # "ok" THEN NoRead(r.err)
            ELSE IF AreaError(a.area) # "ok" THEN NoRead(AreaError(a.area))
            ELSE Decode(d, Dparam(o, a, r.reduce), as_bands, failAt)

\* jp2k.py:461-463
Squeeze(data) ==
    IF ~IsNone(data) /\ Val(data).shape[3] = 1
    THEN Some([Val(data) EXCEPT !.shape = SubSeq(Val(data).shape, 1, 2)])
    ELSE data

\* Jp2k.read (jp2k.py:402-465)
ReadRun(o, d, a, failAt) ==
    LET c == GetCodestream(o, d)
    IN IF c.err # "ok" THEN NoRead(c.err)
       ELSE IF MixedSubsampling(c.segment[2].XRsiz, c.segment[2].YRsiz)
            THEN NoRead("IOError: mixed subsampling")
       ELSE LET r == ReadCommon(o, d, a, FALSE, failAt)
            IN [r EXCEPT !.out.data = Squeeze(r.out.data)]

\* Jp2k.read_bands (jp2k.py:602-648)
ReadBandsRun(o, d, a, failAt) == ReadCommon(o, d, a, TRUE, failAt)

(***************************************************************************)
(* The calls.  Each action is one whole call on the object; its inputs are *)
(* drawn from the set of cases it is given: <<arguments, engine failure>>. *)
(***************************************************************************)
NoCall == [op |-> "none", args |-> None, err |-> "ok", events |-> <<>>, out |-> None]

\* jp = Jp2k(filename, mode): the object exists only if __init__ returns
Construct(modes) ==
    \E mode \in modes :
        LET r == JInit(mode, disk)
        IN /\ self' = IF r.err = "ok" THEN Some(r.obj) ELSE None
           /\ last' = [op |-> "init", args |-> Some(mode), err |-> r.err,
                       events |-> <<>>, out |-> None]
           /\ UNCHANGED <<filename, disk>>

\* jp.write(data, ...), jp2k.py:141-400
Write(cases) ==
    /\ ~IsNone(self)
    /\ \E c \in cases :
        LET a == c[1]
            r == WriteRun(a, filename, c[2])
            fmt == CodecFmt(filename)
            left == IF r.err = "ok" THEN {Some(Encoded(a, fmt))}
                    ELSE IF StreamOpened(r.events)
                         THEN {Some(f) : f \in PartialFiles(fmt)}
                    ELSE {disk}
        IN \E d \in left :
            LET p == Parse(Val(self), d)
            IN /\ disk' = d
               /\ self' = IF r.err = "ok" THEN Some(p.obj) ELSE self
               /\ last' = [op |-> "write", args |-> Some(a),
                           err |-> IF r.err = "ok" THEN p.err ELSE r.err,
                           events |-> r.events, out |-> r.out]
               /\ UNCHANGED filename

\* jp.read(...), jp2k.py:402-465
Read(cases) ==
    /\ ~IsNone(self)
    /\ \E c \in cases :
        LET r == ReadRun(Val(self), disk, c[1], c[2])
        IN /\ last' = [op |-> "read", args |-> Some(c[1]), err |-> r.err,
                       events |-> r.events, out |-> r.out]
           /\ UNCHANGED <<filename, disk, self>>

\* jp.read_bands(...), jp2k.py:602-648
ReadBands(cases) ==
    /\ ~IsNone(self)
    /\ \E c \in cases :
        LET r == ReadBandsRun(Val(self), disk, c[1], c[2])
        IN /\ last' = [op |-> "read_bands", args |-> Some(c[1]), err |-> r.err,
                       events |-> r.events, out |-> r.out]
           /\ UNCHANGED <<filename, disk, self>>

(***************************************************************************)
(* Inputs: the files found on disk.                                        *)
(***************************************************************************)
Attrs == [prec : {8, 16, 17}, sgnd : BOOLEAN]
Plain == [prec |-> 8, sgnd |-> FALSE]
Geometries == {"uniform", "mixed_x", "mixed_y", "zero"}

\* component k of n: attributes a for the first and b for the others, and
\* subsampling and size by the geometry g of the image
Component(k, n, a, b, g) ==
    LET t == IF k = 1 THEN a ELSE b
        sub == k > 1 /\ g \in {"mixed_x", "mixed_y"}
    IN [prec |-> t.prec, sgnd |-> t.sgnd,
        dx |-> IF sub /\ g = "mixed_x" THEN 2 ELSE 1,
        dy |-> IF sub /\ g = "mixed_y" THEN 2 ELSE 1,
        h |-> IF g = "zero" /\ k = n THEN 0 ELSE IF sub /\ g = "mixed_y" THEN 1 ELSE 2,
        w |-> IF sub /\ g = "mixed_x" THEN 1 ELSE 2]

Image(n, a, b, g) == [k \in 1..n |-> Component(k, n, a, b, g)]

\* images whose components agree, in every geometry, and uniform images
\* whose first component differs from the others in precision or signedness
Images ==
    {Image(n, Plain, Plain, g) : n \in 1..MaxComps, g \in Geometries}
    \cup {Image(n, p[1], p[2], "uniform") :
            n \in 1..MaxComps,
            p \in {q \in Attrs \X Attrs : q[1] = q[2] \/ Plain \in {q[1], q[2]}}}

\* the codestream of image img, with the marker segments mid between SIZ and COD
CsOf(img, mid) ==
    [segment |-> <<SOC, SIZ([k \in 1..Len(img) |-> img[k].dx],
                            [k \in 1..Len(img) |-> img[k].dy])>>
                 \o mid \o <<COD(1), QCD>>,
     comps |-> [k \in 1..Len(img) |->
                  [prec |-> img[k].prec, sgnd |-> img[k].sgnd,
                   h |-> img[k].h, w |-> img[k].w,
                   data |-> [i \in 1..(img[k].h * img[k].w) |-> 0]]]]

PlainImage == Image(MaxComps, Plain, Plain, "uniform")

GoodFiles ==
    {FileOf(CODEC_J2K, CsOf(img, <<>>)) : img \in Images}
    \cup {FileOf(CODEC_JP2, CsOf(Image(MaxComps, Plain, Plain, g), <<>>)) :
            g \in Geometries}
    \cup {FileOf(fmt, CsOf(PlainImage, <<CME>>)) : fmt \in {CODEC_J2K, CODEC_JP2}}

OddFiles ==
    LET f == FileOf(CODEC_JP2, CsOf(PlainImage, <<>>))
    IN {[f EXCEPT !.tree = <<"jP  ", "ftyp", "jp2h", "jp2c", "jp2c">>],
        [f EXCEPT !.tree = <<"jP  ", "ftyp", "jp2h">>, !.cs = None],
        [f EXCEPT !.tree_ok = FALSE],
        [f EXCEPT !.hdr[12] = 11],
        [f EXCEPT !.hdr = <<>>, !.cs = None]}

Filenames == {".jp2", ".JP2", ".j2k"}

(***************************************************************************)
(* Inputs: the arguments of the calls.                                     *)
(***************************************************************************)
Modes == {"rb", "wb"}

RDefault == [reduce |-> 0, layer |-> 0, area |-> None, tile |-> None,
             verbose |-> FALSE]

Coords == -1..MaxCoord
Areas == {<<a, b, c, e>> : a \in Coords, b \in Coords, c \in Coords, e \in Coords}

SomeAreas == {<<0, 0, 1, 1>>, <<-1, 0, 1, 1>>, <<0, 0, 0, 1>>}

ReadArgs ==
    {[RDefault EXCEPT !.reduce = r, !.tile = t] : r \in {-1, 0, 1}, t \in {None, Some(0)}}
    \cup {[RDefault EXCEPT !.area = Some(ar), !.reduce = r] :
            ar \in SomeAreas, r \in {-1, 0}}

AreaArgs == {[RDefault EXCEPT !.area = Some(ar)] : ar \in Areas}

DecodeFailures ==
    {"stream_create", "create_decompress", "setup_decoder", "read_header",
     "get_decoded_tile", "set_decode_area", "decode", "end_decompress"}

ReadCases ==
    (ReadArgs \X {"none"})
    \cup ({RDefault, [RDefault EXCEPT !.tile = Some(0)]} \X DecodeFailures)

WDefault ==
    [data |-> Zeros(<<2, 2, 3>>, "uint8"),
     cratios |-> None, psnr |-> None, cbsize |-> None, psizes |-> None,
     colorspace |-> None, numres |-> None, subsam |-> None,
     eph |-> FALSE, sop |-> FALSE]

Shapes == {<<2>>, <<2, 2>>, <<2, 2, 1>>, <<2, 2, 2>>, <<2, 2, 3>>, <<2, 2, 4>>,
           <<2, 2, 2, 2>>}

WriteArgs ==
    {[WDefault EXCEPT !.data = Zeros(sh, dt)] :
        sh \in Shapes, dt \in {"uint8", "uint16"}}
    \cup {[WDefault EXCEPT !.data.dtype = "int16"]}
    \cup {[WDefault EXCEPT !.cratios = cr, !.psnr = ps] :
            cr \in {None, Some(<<10>>)}, ps \in {None, Some(<<30>>)}}
    \cup {[WDefault EXCEPT !.colorspace = Some(c), !.data = Zeros(sh, "uint8")] :
            c \in {"rgb", "RGB", "gray", "grey", "ycc"},
            sh \in {<<2, 2>>, <<2, 2, 3>>}}
    \cup {[WDefault EXCEPT !.cbsize = Some(cb), !.psizes = ps] :
            cb \in {<<4, 4>>, <<5, 5>>, <<64, 128>>},
            ps \in {None, Some(<<<<8, 8>>>>), Some(<<<<4, 4>>>>)}}
    \cup {[WDefault EXCEPT !.numres = Some(2), !.subsam = Some(<<2, 2>>),
                           !.eph = TRUE, !.sop = TRUE]}

EncodeFailures ==
    {"setup_encoder", "stream_create", "start_compress", "encode", "end_compress"}

WriteCases == (WriteArgs \X {"none"}) \cup ({WDefault} \X EncodeFailures)

(***************************************************************************)
(* The life of one Jp2k object: a file name, whatever is on disk under it, *)
(* then constructions and calls in any order.                              *)
(***************************************************************************)
PlainFiles == {FileOf(fmt, CsOf(PlainImage, <<>>)) : fmt \in {CODEC_J2K, CODEC_JP2}}

InitDisks(fname) ==
    IF fname = ".j2k" THEN {None} \cup {Some(f) : f \in GoodFiles \cup OddFiles}
    ELSE IF fname = ".jp2" THEN {None} \cup {Some(f) : f \in PlainFiles}
    ELSE {None}

Init ==
    /\ filename \in Filenames
    /\ disk \in InitDisks(filename)
    /\ self = None
    /\ last = NoCall

Next ==
    \/ Construct(Modes)
    \/ Write(WriteCases)
    \/ Read(ReadCases)
    \/ ReadBands(ReadCases)

Spec == Init /\ [][Next]_vars

(***************************************************************************)
(* Opening files: every file that differs from a JP2 or a raw codestream   *)
(* in one byte of its first 12, or is cut short within them.               *)
(***************************************************************************)
Bytes == 0..MaxByte \cup {10, 11, 12, 13, 32, 79, 80, 106, 135, 255}

Prefixes(hdr) == {SubSeq(hdr, 1, n) : n \in 0..Len(hdr)}

Headers ==
    {[JP2Hdr EXCEPT ![i] = b] : i \in 1..12, b \in Bytes}
    \cup {[J2KHdr EXCEPT ![i] = b] : i \in 1..2, b \in Bytes}
    \cup Prefixes(JP2Hdr) \cup Prefixes(J2KHdr)

\* the JP2 file of the plain image with its first bytes replaced by hdr
WithHeader(hdr) == [FileOf(CODEC_JP2, CsOf(PlainImage, <<>>)) EXCEPT !.hdr = hdr]

InitParse ==
    /\ filename = ".jp2"
    /\ disk \in {Some(WithHeader(hdr)) : hdr \in Headers}
    /\ self = None
    /\ last = NoCall

NextParse == Construct(Modes)

SpecParse == InitParse /\ [][NextParse]_vars

(***************************************************************************)
(* Decode areas: every area with coordinates in Coords, read from a file   *)
(* with uniform subsampling, one with mixed subsampling and one whose COD  *)
(* segment is not the third of the main header.                            *)
(***************************************************************************)
AreaFiles ==
    {FileOf(CODEC_JP2, CsOf(PlainImage, <<>>)),
     FileOf(CODEC_J2K, CsOf(Image(MaxComps, Plain, Plain, "mixed_x"), <<>>)),
     FileOf(CODEC_J2K, CsOf(PlainImage, <<CME>>))}

AreaCases ==
    ((AreaArgs \cup ReadArgs) \X {"none"}) \cup ({RDefault} \X DecodeFailures)

InitArea ==
    /\ filename = ".jp2"
    /\ disk \in {Some(f) : f \in AreaFiles}
    /\ self = None
    /\ last = NoCall

NextArea ==
    \/ Construct(Modes)
    \/ Read(AreaCases)
    \/ ReadBands(AreaCases)

SpecArea == InitArea /\ [][NextArea]_vars

(***************************************************************************)
(* Write parameters: every code-block size with sides in Sides, alone and  *)
(* with precinct lists, written through an object opened for writing.      *)
(***************************************************************************)
Sides == {Pow2(k) + e : k \in 0..MaxExp, e \in {-1, 0, 1}}
PrecinctSides == {0, 1, 3, 4, 8, Pow2(MaxExp)}
Precincts == PrecinctSides \X PrecinctSides

PsizesLists ==
    {<<>>} \cup {<<p>> : p \in Precincts}
    \cup {<<p, q>> : p \in {<<Pow2(MaxExp), Pow2(MaxExp)>>}, q \in Precincts}

\* the sides paired with every side, in either position
ProbeSides == {3, 4, 5, 32, 64, Pow2(MaxExp)}

ParamArgs ==
    {[WDefault EXCEPT !.cbsize = Some(cb)] :
        cb \in {c \in Sides \X Sides : c[1] \in ProbeSides \/ c[2] \in ProbeSides}}
    \cup {[WDefault EXCEPT !.cbsize = cb, !.psizes = Some(ps)] :
            cb \in {None, Some(<<4, 4>>), Some(<<64, 64>>)}, ps \in PsizesLists}

ParamCases == ParamArgs \X {"none"}

InitParams ==
    /\ filename = ".j2k"
    /\ disk = None
    /\ self = None
    /\ last = NoCall

NextParams ==
    \/ Construct({"wb"})
    \/ Write(ParamCases)

SpecParams == InitParams /\ [][NextParams]_vars

(***************************************************************************)
(* Round trips: arrays of three 8-bit components, of every size up to      *)
(* MaxDim rows and columns, written with the default parameters and read   *)
(* back.                                                                   *)
(***************************************************************************)
Samples == {0, 1, 127, 128, 255}

\* the uint8 array of the given shape whose samples, in C order, start at
\* start and grow by step
Ramp(shape, start, step) ==
    [shape |-> shape, dtype |-> "uint8",
     flat |-> [i \in 1..Size(shape) |-> (start + (i - 1) * step) % 256]]

RoundTripShapes == {<<r, c, 3>> : r \in 0..MaxDim, c \in 0..MaxDim}

RoundTripArrays ==
    {Ramp(sh, start, step) :
        sh \in RoundTripShapes, start \in {0, 250}, step \in {0, 1, 7, 100}}
    \cup {[shape |-> <<1, 1, 3>>, dtype |-> "uint8", flat |-> f] :
            f \in [1..3 -> Samples]}

RoundTripWrites == {[WDefault EXCEPT !.data = x] : x \in RoundTripArrays} \X {"none"}
RoundTripReads == {RDefault} \X {"none"}

InitRoundTrip ==
    /\ filename \in {".jp2", ".j2k"}
    /\ disk \in {None} \cup {Some(f) : f \in PlainFiles}
    /\ self = None
    /\ last = NoCall

NextRoundTrip ==
    \/ Construct(Modes)
    \/ Write(RoundTripWrites)
    \/ Read(RoundTripReads)

SpecRoundTrip == InitRoundTrip /\ [][NextRoundTrip]_vars

(***************************************************************************)
(* Properties.                                                             *)
(***************************************************************************)
IsRead == last.op \in {"read", "read_bands"}
IsWrite == last.op = "write"
Args == Val(last.args)

\* C1: when write returns or raises, no engine handle (image, codec, stream)
\* acquired by that call is still unreleased.
C1_WriteReleasesAll == IsWrite => Unreleased(last.events) = {}

\* C2: when read or read_bands ends, by a returned buffer or by a failure at
\* any step, every engine handle the call acquired has been released, and no
\* handle was released that the call had not acquired.
C2_ReadReleasesAll ==
    IsRead => Unreleased(last.events) = {} /\ Spurious(last.events) = {}

\* a read that failed on a zero-sized component, after the stream, the codec
\* and the image were all acquired
C2_Witness ==
    /\ IsRead
    /\ last.err = "IOError: component has zero dimension"
    /\ \A h \in Handles : \E i \in 1..Len(last.events) : last.events[i] = Acquire(h)

\* C3: whenever write rejects its parameters (code-block size, precinct size,
\* cratios with psnr, array rank, colorspace, sample type) no engine handle
\* has been acquired and the file on disk is as it was before the call; and
\* cratios together with psnr is always such a rejection.
C3_RejectBeforeAllocate ==
    [][/\ (last'.op = "write" /\ last'.err \in ParamErrors)
            => (last'.events = <<>> /\ disk' = disk)
       /\ (last'.op = "write" /\ ~IsNone(Val(last'.args).cratios)
             /\ ~IsNone(Val(last'.args).psnr))
            => (last'.err \in ParamErrors /\ disk' = disk)]_vars

\* cratios and psnr were given to a write on a name with no file: there is
\* still no file
C3_Witness ==
    /\ IsWrite
    /\ Args.cratios = Some(<<10>>) /\ Args.psnr = Some(<<30>>)
    /\ last.err = "RuntimeError: cratios and psnr together"
    /\ IsNone(disk)

RawCodestream(file) == Len(file.hdr) >= 2 /\ file.hdr[1] = 255 /\ file.hdr[2] = 79

\* C4: after a successful construction for reading or a successful write, the
\* box list is empty if the file just parsed is a raw codestream, and after a
\* successful write the box list and the codec format are those of the file
\* just written.
C4_BoxListCurrent ==
    (/\ last.op \in {"init", "write"} /\ last.err = "ok"
     /\ ~IsNone(self) /\ ~IsNone(disk)
     /\ (last.op = "init" => Val(self).mode = "rb"))
    => /\ RawCodestream(Val(disk)) => Val(self).box = <<>>
       /\ last.op = "write"
            => /\ Val(self).box = Val(disk).tree
               /\ Val(self).codec_format
                    = (IF RawCodestream(Val(disk)) THEN CODEC_J2K ELSE CODEC_JP2)

Width(dtype) == IF dtype \in {"int8", "uint8"} THEN 8 ELSE 16
Signed(dtype) == dtype \in {"int8", "int16"}

\* the components of the image stored in the file on disk
Stored == Val(Val(disk).cs).comps

\* the datatypes of the buffers returned, one per component
Returned ==
    IF last.op = "read_bands"
    THEN [k \in 1..Len(Val(last.out.data)) |-> Val(last.out.data)[k].dtype]
    ELSE [k \in 1..Len(Stored) |-> Val(last.out.data).dtype]

\* C5: every buffer returned by read or read_bands has a datatype as wide as
\* the declared depth of each component it stores, signed as that component is
\* declared, and no image with a component deeper than 16 bits is returned.
C5_DtypeHoldsDepth ==
    (IsRead /\ last.err = "ok")
    => /\ Len(Returned) = Len(Stored)
       /\ \A k \in 1..Len(Stored) :
            /\ Stored[k].prec <= 16
            /\ Width(Returned[k]) >= Stored[k].prec
            /\ Signed(Returned[k]) = Stored[k].sgnd

\* the SIZ segment of the file on disk
HasSiz == ~IsNone(disk) /\ ~IsNone(Val(disk).cs)
Siz == Val(Val(disk).cs).segment[2]
Differs(xs) == \E k \in 1..Len(xs) : xs[k] # xs[1]

\* C6: a read that obtains the main header fails with the mixed-subsampling
\* error exactly when some component's XRsiz or YRsiz differs from component
\* 0's, and then without any engine call; read_bands never raises that error
\* and returns one buffer per component, each of its component's shape.
C6_MixedSubsampling ==
    /\ (last.op = "read" /\ GetCodestream(Val(self), disk).err = "ok")
         => /\ (last.err = "IOError: mixed subsampling")
                 <=> (Differs(Siz.XRsiz) \/ Differs(Siz.YRsiz))
            /\ (last.err = "IOError: mixed subsampling")
                 => (last.events = <<>> /\ IsNone(last.out.dparam))
    /\ last.op = "read_bands"
         => /\ last.err # "IOError: mixed subsampling"
            /\ last.err = "ok"
                 => /\ Len(Val(last.out.data)) = Len(Stored)
                    /\ \A k \in 1..Len(Stored) :
                         Val(last.out.data)[k].shape = <<Stored[k].h, Stored[k].w>>

\* a read refused for components that differ in vertical subsampling only
C6_Witness ==
    /\ last.op = "read"
    /\ last.err = "IOError: mixed subsampling"
    /\ HasSiz /\ Differs(Siz.YRsiz) /\ ~Differs(Siz.XRsiz)

IsPowerOfTwo(n) == \E k \in 0..12 : n = Pow2(k)

ValidCbsize(h, w) ==
    h * w <= 4096 /\ h >= 4 /\ w >= 4 /\ IsPowerOfTwo(h) /\ IsPowerOfTwo(w)

CbsizeErrors ==
    {"RuntimeError: code block area", "IOError: code block size not a power of 2"}

\* C7: write accepts a code-block size (h, w) exactly when h*w <= 4096,
\* h >= 4, w >= 4 and both are powers of two; (5,5) and (64,128) are rejected,
\* (4,4) and (64,64) accepted; the configuration handed to the engine carries
\* the accepted height and width.
C7_CbsizeAccepted ==
    (IsWrite /\ ~IsNone(Args.cbsize))
    => LET h == Val(Args.cbsize)[1]
           w == Val(Args.cbsize)[2]
       IN /\ (last.err \notin CbsizeErrors) <=> ValidCbsize(h, w)
          /\ Args.cbsize \in {Some(<<5, 5>>), Some(<<64, 128>>)}
               => last.err \in CbsizeErrors
          /\ Args.cbsize \in {Some(<<4, 4>>), Some(<<64, 64>>)}
               => last.err \notin CbsizeErrors
          /\ (IsNone(Args.psizes) /\ ValidCbsize(h, w))
               => /\ last.err = "ok"
                  /\ ~IsNone(last.out.cparams)
          /\ ~IsNone(last.out.cparams)
               => /\ Val(last.out.cparams).cblockh_init = h
                  /\ Val(last.out.cparams).cblockw_init = w

\* a write with the largest code block allowed, accepted and configured
C7_Witness ==
    /\ IsWrite /\ Args.cbsize = Some(<<64, 64>>) /\ IsNone(Args.psizes)
    /\ last.err = "ok"
    /\ Val(last.out.cparams).cblockh_init = 64
    /\ Val(last.out.cparams).cblockw_init = 64

\* C8: write accepts a precinct list only if every precinct's height and
\* width are powers of two and the first precinct is at least twice the code
\* block the encoder uses (given or default) in each direction; the accepted
\* configuration carries the precincts in order and res_spec = len(psizes).
C8_PsizesAccepted ==
    (IsWrite /\ ~IsNone(Args.psizes) /\ last.err = "ok")
    => LET ps == Val(Args.psizes)
           cp == Val(last.out.cparams)
       IN /\ \A j \in 1..Len(ps) : IsPowerOfTwo(ps[j][1]) /\ IsPowerOfTwo(ps[j][2])
          /\ Len(ps) >= 1
               => /\ ps[1][1] >= 2 * cp.cblockh_init
                  /\ ps[1][2] >= 2 * cp.cblockw_init
          /\ cp.res_spec = Len(ps)
          /\ cp.prch_init = [j \in 1..Len(ps) |-> ps[j][1]]
          /\ cp.prcw_init = [j \in 1..Len(ps) |-> ps[j][2]]

AreaErrors ==
    {"IOError: upper left corner must be nonnegative",
     "IOError: lower right corner must be positive"}

BadArea(ar) == ar[1] < 0 \/ ar[2] < 0 \/ ar[3] <= 0 \/ ar[4] <= 0

PassedAsGiven(ar, dparam) ==
    /\ dparam.DA_y0 = ar[1] /\ dparam.DA_x0 = ar[2]
    /\ dparam.DA_y1 = ar[3] /\ dparam.DA_x1 = ar[4]

\* the errors of the steps that come before the area is looked at
EarlierErrors ==
    {"IOError: mixed subsampling", "AttributeError: _codec_format",
     "AttributeError: SPcod", "IndexError: segment", "IOError: open",
     "IOError: codestream parse", "RuntimeError: single codestream"}

\* C9 as stated: a read or read_bands call on an opened file, given an area,
\* fails with the decode-area error exactly when a corner is out of range,
\* before any handle is created; other areas reach the engine as given.
C9_AreaErrorExactly ==
    (IsRead /\ ~IsNone(Args.area) /\ Val(self).codec_format # Unset)
    => LET ar == Val(Args.area)
       IN /\ (last.err \in AreaErrors) <=> BadArea(ar)
          /\ BadArea(ar) => last.events = <<>>
          /\ (~BadArea(ar) /\ ~IsNone(last.out.dparam))
               => PassedAsGiven(ar, Val(last.out.dparam))

\* C9, amended: the decode-area error is raised only for an area with a
\* corner out of range; such an area always fails the call before any handle
\* is created, with the decode-area error unless an earlier step failed
\* first, and always so in read_bands, and in read on uniform subsampling,
\* when the format is known and reduce is not -1; other areas reach the
\* engine as given.
C9_AreaChecked ==
    (IsRead /\ ~IsNone(Args.area))
    => LET ar == Val(Args.area)
       IN /\ last.err \in AreaErrors => BadArea(ar)
          /\ BadArea(ar)
               => /\ last.err \in AreaErrors \cup EarlierErrors
                  /\ last.events = <<>>
                  /\ IsNone(last.out.dparam)
          /\ (/\ BadArea(ar) /\ Val(self).codec_format # Unset /\ Args.reduce # -1
              /\ \/ last.op = "read_bands"
                 \/ /\ GetCodestream(Val(self), disk).err = "ok"
                    /\ ~Differs(Siz.XRsiz) /\ ~Differs(Siz.YRsiz))
               => last.err \in AreaErrors
          /\ (~BadArea(ar) /\ ~IsNone(last.out.dparam))
               => PassedAsGiven(ar, Val(last.out.dparam))

\* a read refused for a lower-right row of 0, with no handle created
C9_Witness ==
    /\ last.op = "read" /\ Args.area = Some(<<0, 0, 0, 1>>)
    /\ last.err = "IOError: lower right corner must be positive"
    /\ last.events = <<>>

\* C10: a file opened for reading is classified as a bare codestream exactly
\* when its first two bytes are 0xFF4F; otherwise a box tree is built exactly
\* when its first 12 bytes are length 12, type 'jP  ', payload (13,10,135,10),
\* and 12 bytes with any other content fail the construction with the
\* not-JPEG-2000 error, leaving no object.
C10_Signature ==
    /\ (last.op = "init" /\ last.args = Some("rb"))
         => LET hdr == Val(disk).hdr
                raw == RawCodestream(Val(disk))
            IN /\ (~IsNone(self) /\ Val(self).codec_format = CODEC_J2K) <=> raw
               /\ raw => (last.err = "ok" /\ Val(self).box = <<>>)
               /\ (~raw /\ Len(hdr) = 12)
                    => /\ (last.err = "ok") <=> (hdr = JP2Hdr)
                       /\ hdr = JP2Hdr => Val(self).box = Val(disk).tree
                       /\ hdr # JP2Hdr
                            => /\ last.err = "IOError: not a JPEG 2000 file"
                               /\ IsNone(self)
    /\ (~IsNone(self) /\ Val(self).box # <<>>) => Val(disk).hdr = JP2Hdr

\* a file whose signature differs in its last byte only: no object
C10_Witness ==
    /\ last.op = "init" /\ last.args = Some("rb")
    /\ Val(disk).hdr = [JP2Hdr EXCEPT ![12] = 11]
    /\ last.err = "IOError: not a JPEG 2000 file"
    /\ IsNone(self)

(***************************************************************************)
(* C11: the colorspace of the engine image.                                *)
(***************************************************************************)
\* the number of components of the data of the last write, 0 when its rank
\* is neither 2 nor 3
NumComps ==
    IF Len(Args.data.shape) = 2 THEN 1
    ELSE IF Len(Args.data.shape) = 3 THEN Args.data.shape[3]
    ELSE 0

ColorspaceErrors ==
    {"IOError: colorspace with J2K", "IOError: invalid colorspace",
     "IOError: RGB requires 3 components"}

\* the write was refused for its parameters, before any engine call
Rejected == last.err \in ParamErrors /\ last.events = <<>>

\* the engine image was created, with colorspace c
CreatedAs(c) == last.out.colorspace = Some(c)

\* what the claim requires of the last write when names are compared as
\* container(name) and colorspace strings as usable(string) says
ColorspaceRule(container, usable(_)) ==
    IsWrite =>
      /\ IsNone(Args.colorspace) /\ ~IsNone(last.out.colorspace) =>
            CreatedAs(IF NumComps \in {1, 2} THEN "CLRSPC_GRAY" ELSE "CLRSPC_SRGB")
      /\ ~IsNone(Args.colorspace) /\ ~container => Rejected
      /\ ~IsNone(Args.colorspace) /\ container =>
            IF usable(Val(Args.colorspace))
            THEN /\ last.err \notin ColorspaceErrors
                 /\ ~Rejected =>
                      CreatedAs(IF Lower(Val(Args.colorspace)) = "rgb"
                                THEN "CLRSPC_SRGB" ELSE "CLRSPC_GRAY")
            ELSE Rejected

\* C11 as stated: without a colorspace the image is gray for 1 or 2 components
\* and sRGB for 3 or more; a colorspace given for a file name not ending in
\* '.jp2' is rejected; for a name ending in '.jp2' the colorspace is used only
\* if it is 'rgb' (with at least 3 components), 'gray' or 'grey', and is
\* rejected otherwise.
C11_ColorspaceAsStated ==
    ColorspaceRule(filename = ".jp2",
                   LAMBDA c : c \in {"gray", "grey"} \/ (c = "rgb" /\ NumComps >= 3))

\* C11 amended: the same, with the file name's ending and the colorspace
\* both compared without regard to letter case.
C11_ColorspaceAnyCase ==
    ColorspaceRule(Lower(filename) = ".jp2",
                   LAMBDA c : \/ Lower(c) \in {"gray", "grey"}
                              \/ (Lower(c) = "rgb" /\ NumComps >= 3))

\* 'RGB' given for three components written to a '.JP2' name: used, as sRGB
C11_Witness ==
    /\ IsWrite /\ filename = ".JP2"
    /\ Args.colorspace = Some("RGB") /\ NumComps = 3
    /\ last.err = "ok" /\ CreatedAs("CLRSPC_SRGB")

(***************************************************************************)
(* C12: the resolution reduction passed to the engine.                     *)
(***************************************************************************)
\* the main header of the file on disk, <<>> when it has no codestream
MainHeader ==
    IF IsNone(disk) \/ IsNone(Val(disk).cs) THEN <<>> ELSE Val(Val(disk).cs).segment

\* SOC first, SIZ second, and one COD segment somewhere after them
WellFormedHeader ==
    /\ Len(MainHeader) >= 3
    /\ MainHeader[1].marker_id = "SOC"
    /\ MainHeader[2].marker_id = "SIZ"
    /\ \E i \in 3..Len(MainHeader) : MainHeader[i].marker_id = "COD"

\* the number of decomposition levels its COD segment records
DecompositionLevels ==
    LET i == CHOOSE j \in 3..Len(MainHeader) : MainHeader[j].marker_id = "COD"
    IN MainHeader[i].SPcod[5]

\* the errors of looking up SPcod in a segment that is not there or has none
LookupErrors == {"IndexError: segment", "AttributeError: SPcod"}

\* C12: on a file with a well-formed main header, wherever its COD segment
\* stands after SIZ, a read with reduce=-1 finds the number of decomposition
\* levels of the COD segment and passes it to the engine as the reduction
\* factor; a read with reduce >= 0 passes reduce itself.
C12_ReduceFromCOD ==
    IsRead /\ WellFormedHeader =>
      /\ Args.reduce = -1 =>
           /\ last.err \notin LookupErrors
           /\ ~IsNone(last.out.dparam) =>
                Val(last.out.dparam).cp_reduce = DecompositionLevels
      /\ Args.reduce >= 0 /\ ~IsNone(last.out.dparam) =>
           Val(last.out.dparam).cp_reduce = Args.reduce

(***************************************************************************)
(* C13: the order of the releases.                                         *)
(***************************************************************************)
\* the handles log ev acquires, and those it releases, each in log order
AcquiredIn(ev) ==
    LET acq == SelectSeq(ev, LAMBDA e : e.act = "acquire")
    IN [i \in 1..Len(acq) |-> acq[i].h]
ReleasedIn(ev) ==
    LET rel == SelectSeq(ev, LAMBDA e : e.act = "release")
    IN [i \in 1..Len(rel) |-> rel[i].h]

\* the positions of event e in log ev
Positions(ev, e) == {i \in 1..Len(ev) : ev[i] = e}

\* the call returned normally
Completed == (IsRead \/ IsWrite) /\ last.err = "ok"

\* the components of the image decoded from the file on disk
DecodedComps == Val(Val(disk).cs).comps

\* C13: in every read and write call that completes, the stream, codec and
\* image handles have all been acquired and are released in exactly the
\* reverse of the order in which the call acquired them; in a read, every
\* component is copied to the caller's buffer before the image handle is
\* released.
C13_ReverseRelease ==
    Completed =>
      LET acq == AcquiredIn(last.events)
          rel == ReleasedIn(last.events)
      IN /\ {acq[i] : i \in 1..Len(acq)} = Handles
         /\ Len(acq) = 3 /\ Len(rel) = 3
         /\ \A i \in 1..3 : rel[i] = acq[4 - i]
         /\ IsRead =>
              \A k \in 1..Len(DecodedComps) :
                \E i \in Positions(last.events, Copy(k)) :
                  \A j \in Positions(last.events, Release("image")) : i < j

\* a read that returned the array of an image of MaxComps components
C13_Witness ==
    /\ last.op = "read" /\ last.err = "ok"
    /\ Len(DecodedComps) = MaxComps
    /\ Positions(last.events, Copy(MaxComps)) # {}
    /\ ReleasedIn(last.events) = <<"image", "codec", "stream">>

(***************************************************************************)
(* C14: the round trip.                                                    *)
(***************************************************************************)
\* the last call wrote, with the default parameters, an array of three 8-bit
\* unsigned components
WroteDefault ==
    /\ IsWrite /\ last.err = "ok"
    /\ Args = [WDefault EXCEPT !.data = Args.data]
    /\ Args.data.dtype = "uint8"
    /\ Len(Args.data.shape) = 3 /\ Args.data.shape[3] = 3

\* this step is read(reduce=0) and returns an array of the shape and type of
\* x with each sample equal to that of x
ReadsBack(x) ==
    /\ last'.op = "read" /\ Val(last'.args) = RDefault
    => /\ last'.err = "ok"
       /\ ~IsNone(last'.out.data)
       /\ Val(last'.out.data).shape = x.shape
       /\ Val(last'.out.data).dtype = "uint8"
       /\ \A i \in 1..Size(x.shape) : Val(last'.out.data).flat[i] = x.flat[i]

\* C14 as stated: the read(reduce=0) that follows the default write of any
\* array of three 8-bit unsigned components returns an array of the same
\* shape, of 8-bit unsigned type, whose samples equal the input's.
C14_RoundTripAny ==
    [][WroteDefault => ReadsBack(Args.data)]_vars

\* C14 amended: the same for every such array with at least one row and one
\* column.
C14_RoundTripNonEmpty ==
    [][WroteDefault /\ Args.data.shape[1] > 0 /\ Args.data.shape[2] > 0
         => ReadsBack(Args.data)]_vars

\* the array of MaxDim rows and columns holding 0, 1, 2, ... was written, its
\* second component is on disk, and the read returned 0, 1, 2, ...
C14_Witness ==
    /\ last.op = "read" /\ last.err = "ok"
    /\ Val(last.out.data).shape = <<MaxDim, MaxDim, 3>>
    /\ \A i \in 1..(MaxDim * MaxDim * 3) : Val(last.out.data).flat[i] = i - 1
    /\ DecodedComps[2].data = [i \in 1..(MaxDim * MaxDim) |-> 3 * i - 2]

====
